---- MODULE Spec2Model ----
\* RedisStorageDelegate (src/jupyter_health/ch_client.py): a storage delegate
\* that keeps one Redis hash record, with a lazily loaded per-instance cache.
\* Several delegate instances (one per process) share the same record.
EXTENDS Naturals, FiniteSets, Sequences, TLC

\* ---------------------------------------------------------------- bounds
\* operations started in one run with a store that answers every call
MaxOps == 3
\* operations started, and store round trips that fail, in one run with a
\* store that may fail
MaxFaultOps == 2
MaxFaults == 1
\* keys in the storage that list_patients goes through
MaxStored == 2

Inst == {"A", "B"}
Keys == {"a", "b", "c"}
Vals == {"1", "2"}
\* Python's None (the implicit default of get_secure_value, the return value
\* of the mutating methods)
None == "None"
Defaults == {None, "d"}

\* a dict / a Redis hash: a function from some of the keys to values
Maps == UNION {[D -> Vals] : D \in SUBSET Keys}
EmptyMap == [k \in {} |-> None]
\* the records a run may start from
InitRecords == {EmptyMap, [k \in {"a"} |-> "1"], [k \in {"a", "b"} |-> "1"]}

VARIABLES
    remote,        \* the hash record self.name in Redis ({} when it does not exist)
    cached_value,  \* per instance: self._cached_value, [some, map]; ~some is None
    call,          \* per instance: the operation in progress and where it stands
    stale,         \* per instance: another instance wrote the record since this one's last load
    hist,          \* per instance: the set_secure_value it has just completed, if any
    last,          \* the operation that finished most recently, with what it saw
    prevWrite,     \* the set_secure_value that wrote the record last, if a set did
    everSet,       \* keys some set_secure_value was called with
    actors,        \* instances that started an operation
    view,          \* per instance: the view its last keys() / items() returned
    patient_keys,  \* list_patients: what self.storage_delegate.keys() yields
    patient_list,  \* list_patients: the list built so far
    lp,            \* list_patients: position of the loop in patient_keys
    faults,        \* store round trips that may still fail in this run
    nops           \* operations that may still start in this run

delegate_vars == <<remote, cached_value, call, stale, hist, last, prevWrite,
                   everSet, actors, view, faults, nops>>
client_vars == <<patient_keys, patient_list, lp>>
vars == <<delegate_vars, client_vars>>

\* ------------------------------------------------- dicts and Redis commands
\* redis.hgetall(name): every field of the record, as a new dict
HGetAll(r) == r

\* redis.hset(name, mapping=m): sets the fields of m in the record and leaves
\* the record's other fields alone
HSetFull(r, m) == m
HSet(r, m) ==
    [k \in (DOMAIN r) \cup (DOMAIN m) |-> IF k \in DOMAIN m THEN m[k] ELSE r[k]]

\* redis-py refuses an empty mapping before anything is sent:
\* DataError("'hset' with no key value pairs")
HSetRaises(m) == DOMAIN m = {}

\* dict.get(key, default)
DictGetNone(m, k, d) == IF k \in DOMAIN m THEN m[k] ELSE None
DictGet(m, k, d) == IF k \in DOMAIN m THEN m[k] ELSE d

\* d[key] = value
DictSetOnly(m, k, v) == [x \in {k} |-> v]
DictSet(m, k, v) == [x \in (DOMAIN m) \cup {k} |-> IF x = k THEN v ELSE m[x]]

\* d.pop(key), key present
DictPopAll(m, k) == EmptyMap
DictPopNone(m, k) == m
DictPop(m, k) == [x \in (DOMAIN m) \ {k} |-> m[x]]

\* ------------------------------------------------- strings of list_patients
\* a str is the sequence of its characters
Prefix == <<"p", "a", "t", "i", "e", "n", "t", "_", "i", "d", "_",
            "m", "a", "p", "p", "i", "n", "g", "/">>
Slash == "/"

\* names that follow the prefix in a stored key: alice, a/b, /a and the empty name
NamePool == {<<"a", "l", "i", "c", "e">>, <<"a", "/", "b">>, <<"/", "a">>, <<>>}
\* stored keys that do not start with the prefix
OtherKeys == {<<"a">>, <<"x", "/", "a">>,
              <<"p", "a", "t", "i", "e", "n", "t", "_", "i", "d", "_",
                "m", "a", "p", "p", "i", "n", "g">>,
              <<"p", "a", "t", "i", "e", "n", "t", "/", "a">>}
KeyPool == {Prefix \o n : n \in NamePool} \cup OtherKeys

\* the keys of a dict, in order: no key twice
StoredKeyLists ==
    {ks \in UNION {[1..n -> KeyPool] : n \in 0..MaxStored} :
        \A i, j \in DOMAIN ks : i # j => ks[i] # ks[j]}

\* str.startswith
StartsWith(str, pre) ==
    Len(str) >= Len(pre) /\ SubSeq(str, 1, Len(pre)) = pre

\* position of the first / last occurrence of a character, 0 when there is none
FirstIndex(str, ch) ==
    IF \E i \in DOMAIN str : str[i] = ch
    THEN CHOOSE i \in DOMAIN str :
            str[i] = ch /\ \A j \in DOMAIN str : str[j] = ch => i <= j
    ELSE 0
LastIndex(str, ch) ==
    IF \E i \in DOMAIN str : str[i] = ch
    THEN CHOOSE i \in DOMAIN str :
            str[i] = ch /\ \A j \in DOMAIN str : str[j] = ch => j <= i
    ELSE 0

\* str.partition(sep), sep one character: (head, sep, tail) around the first
\* occurrence, (str, "", "") when there is none
SplitAt(str, i) ==
    IF i = 0 THEN <<str, <<>>, <<>>>>
    ELSE <<SubSeq(str, 1, i - 1), <<str[i]>>, SubSeq(str, i + 1, Len(str))>>
RPartition(str, ch) == SplitAt(str, LastIndex(str, ch))
Partition(str, ch) == SplitAt(str, FirstIndex(str, ch))

\* ------------------------------------------------------ the delegate's parts
NoCache == [some |-> FALSE, map |-> EmptyMap]

\* _load: on a store error the assignment does not happen
load(c, r, ok) == IF ok THEN [some |-> TRUE, map |-> HGetAll(r)] ELSE c

\* a store call that raises ends the method: no method catches anything
propagates_swallowed(ok) == FALSE
propagates(ok) == ~ok

\* _secret_value, line 52: self._cached_value is None
needs_load_always(c) == TRUE
needs_load(c) == ~c.some

\* _secret_value: loads only when nothing is cached
secret_value_reload(c, r, ok) == load(c, r, ok)
secret_value(c, r, ok) == IF needs_load(c) THEN load(c, r, ok) ELSE c

\* set_secure_value, line 66: the unconditional self._load()
set_load_lazy(c, r, ok) == secret_value(c, r, ok)
set_load(c, r, ok) == load(c, r, ok)

\* clear_value, line 72: key not in self._secret_value
key_missing_never(m, k) == FALSE
key_missing(m, k) == k \notin DOMAIN m

\* _save: HSET of the whole cached dict when there is one
save(c, r) == IF c.some THEN HSet(r, c.map) ELSE r

\* clear_all_values is declared without self: a call through an instance
\* passes the instance as one positional argument
ClearAllParams == 0
clear_all_raises(nargs) ==
    IF nargs # ClearAllParams THEN "TypeError" ELSE "NotImplementedError"

\* dict.keys() / dict.items(): a view of one dict object. The view is live
\* while that object is the instance's _cached_value, and shows the object as
\* it was left (map) once _load has put a new dict in its place
NoView == [have |-> FALSE, live |-> FALSE, map |-> EmptyMap]
NewView == [have |-> TRUE, live |-> TRUE, map |-> EmptyMap]
ViewItems(i) == IF view[i].live THEN cached_value[i].map ELSE view[i].map
ViewKeys(i) == DOMAIN ViewItems(i)

\* _load, line 35: self._cached_value is bound to the new dict of hgetall;
\* the dict a view was taken from is no longer the cache
Detached(i) ==
    IF view[i].have /\ view[i].live
    THEN [have |-> TRUE, live |-> FALSE, map |-> cached_value[i].map]
    ELSE view[i]

\* the view of instance i after a step that loaded (or not) and returned a
\* new view (or not)
ViewAfter(i, loaded, returned) ==
    [view EXCEPT ![i] = IF returned THEN NewView
                        ELSE IF loaded THEN Detached(i) ELSE view[i]]

\* ------------------------------------------------------------ bookkeeping
NoHist == [op |-> "none", key |-> None, arg |-> None]
NoWrite == [inst |-> "none", key |-> None, arg |-> None]
NoSnap == [some0 |-> FALSE, map0 |-> EmptyMap, remote0 |-> EmptyMap, stale0 |-> FALSE,
           prev |-> NoHist, pw0 |-> NoWrite, between |-> {}, stepped |-> FALSE,
           vlive0 |-> FALSE]
IdleCall == [pc |-> "idle", key |-> None, value |-> None, loads |-> 0,
             fault |-> "none", snap |-> NoSnap]
NoLast == [op |-> "none", inst |-> "none", key |-> None, arg |-> None, ret |-> None,
           err |-> "none", fault |-> "none", loads |-> 0, saves |-> 0,
           map1 |-> EmptyMap, remote1 |-> EmptyMap, snap |-> NoSnap]

\* what instance i sees when one of its operations starts; each operation
\* keeps the part that the properties of that operation read
Snap(i) == [some0 |-> cached_value[i].some, map0 |-> cached_value[i].map,
            remote0 |-> remote, stale0 |-> stale[i], prev |-> NoHist,
            pw0 |-> prevWrite, between |-> {}, stepped |-> FALSE,
            vlive0 |-> view[i].have /\ view[i].live]
SnapRead(i) == [NoSnap EXCEPT !.some0 = cached_value[i].some,
                              !.map0 = cached_value[i].map]
SnapGet(i) == [SnapRead(i) EXCEPT !.prev = hist[i]]
SnapOf(op, i) ==
    CASE op = "get" -> SnapGet(i)
      [] op \in {"set", "clear", "clear_all"} -> Snap(i)
      [] OTHER -> SnapRead(i)

\* a step of i: the other instances that are inside an operation note it
OthersCall(i, newcall, setkeys) ==
    [j \in Inst |->
        IF j = i THEN newcall
        ELSE IF call[j].pc # "set_save" THEN call[j]
        ELSE [call[j] EXCEPT !.snap.stepped = TRUE,
                             !.snap.between = @ \cup setkeys]]

Stale(i, loaded, wrote) ==
    [j \in Inst |-> IF j = i THEN (IF loaded THEN FALSE ELSE stale[j])
                    ELSE (stale[j] \/ wrote)]

CanStart(i) == nops > 0 /\ call[i].pc = "idle"

Started(i) ==
    nops' = nops - 1 /\ actors' = actors \cup {i} /\ UNCHANGED client_vars

\* a step inside an operation: no operation ends
Unfinished == last' = NoLast /\ UNCHANGED hist

\* the operation of instance i ends (by returning or by raising err); fault
\* names the store call of the operation that failed, if one did
Finish(op, i, k, arg, ret, err, fault, loads, saves, snap, map1, remote1) ==
    /\ last' = [op |-> op, inst |-> i, key |-> k, arg |-> arg, ret |-> ret,
                err |-> err, fault |-> fault, loads |-> loads, saves |-> saves,
                map1 |-> map1, remote1 |-> remote1, snap |-> snap]
    /\ hist' = [hist EXCEPT ![i] =
                    IF op = "set" /\ err = "none"
                    THEN [op |-> op, key |-> k, arg |-> arg]
                    ELSE IF op = "set" /\ fault = "save"
                    THEN [op |-> "set_unsaved", key |-> k, arg |-> arg]
                    ELSE IF op = "clear" /\ fault = "save"
                    THEN [op |-> "clear_unsaved", key |-> k, arg |-> arg]
                    ELSE NoHist]

\* how an HSET round trip can end: done; failed and not applied; failed after
\* the store applied it (the reply was lost)
SaveOutcomes == {"ok", "lost", "applied"}

Constructed ==
    /\ remote \in InitRecords
    /\ cached_value = [i \in Inst |-> NoCache]
    /\ call = [i \in Inst |-> IdleCall]
    /\ stale = [i \in Inst |-> FALSE]
    /\ hist = [i \in Inst |-> NoHist]
    /\ last = NoLast
    /\ prevWrite = NoWrite
    /\ everSet = {}
    /\ actors = {}
    /\ view = [i \in Inst |-> NoView]

\* list_patients is not running
NoListing == patient_keys = <<>> /\ patient_list = <<>> /\ lp = 0

\* a run against a store that answers every call
Init == Constructed /\ NoListing /\ faults = 0 /\ nops = MaxOps

\* a run against a store whose round trips may fail
FaultInit == Constructed /\ NoListing /\ faults = MaxFaults /\ nops = MaxFaultOps

\* list_patients is entered: patient_list = [], the loop is before the first
\* of the keys of the storage delegate
ListInit ==
    /\ Constructed /\ remote = EmptyMap /\ faults = 0 /\ nops = 0
    /\ patient_keys \in StoredKeyLists
    /\ patient_list = <<>>
    /\ lp = 1

\* ------------------------------------------------------------- operations
\* the read operations: a lazy load, then an answer from the cached dict
Read(op, i, k, d) ==
    /\ \E ok \in BOOLEAN :
        LET c == cached_value[i]
            needs == needs_load(c)
            c2 == secret_value(c, remote, ok)
            failed == needs /\ propagates(ok)
            ret == IF failed \/ op # "get" THEN None ELSE DictGet(c2.map, k, d)
        IN  /\ ok \/ (needs /\ faults > 0)
            /\ cached_value' = [cached_value EXCEPT ![i] = c2]
            /\ Finish(op, i, k, d, ret, IF failed THEN "StoreError" ELSE "none",
                      IF ok THEN "none" ELSE "load",
                      IF needs THEN 1 ELSE 0, 0, SnapOf(op, i), c2.map, remote)
            /\ stale' = Stale(i, needs /\ ok, FALSE)
            /\ view' = ViewAfter(i, needs /\ ok, op \in {"keys", "items"} /\ ~failed)
            /\ call' = OthersCall(i, IdleCall, {})
            /\ faults' = IF ok THEN faults ELSE faults - 1
    /\ Started(i)
    /\ UNCHANGED <<remote, prevWrite, everSet>>

get_secure_value(i, k, d) == CanStart(i) /\ Read("get", i, k, d)

keys(i) == CanStart(i) /\ Read("keys", i, None, None)

items(i) == CanStart(i) /\ Read("items", i, None, None)

\* set_secure_value up to and including self._load()
set_secure_value_load(i, k, v) ==
    /\ CanStart(i)
    /\ \E ok \in BOOLEAN :
        LET c2 == set_load(cached_value[i], remote, ok)
        IN  /\ ok \/ faults > 0
            /\ cached_value' = [cached_value EXCEPT ![i] = c2]
            /\ IF ~propagates(ok)
               THEN /\ call' = OthersCall(i, [pc |-> "set_save", key |-> k, value |-> v,
                                              loads |-> 1,
                                              fault |-> IF ok THEN "none" ELSE "load",
                                              snap |-> SnapOf("set", i)], {})
                    /\ Unfinished
               ELSE /\ call' = OthersCall(i, IdleCall, {})
                    /\ Finish("set", i, k, v, None, "StoreError", "load", 1, 0,
                              SnapOf("set", i), cached_value[i].map, remote)
            /\ stale' = Stale(i, ok, FALSE)
            /\ view' = ViewAfter(i, ok, FALSE)
            /\ faults' = IF ok THEN faults ELSE faults - 1
    /\ everSet' = everSet \cup {k}
    /\ Started(i)
    /\ UNCHANGED <<remote, prevWrite>>

\* the cache when _save() has ended, by returning or by raising: _save
\* assigns nothing, the dict keeps the mutation made before it
cache_after_save_rolled(before, mutated, raised) ==
    IF raised THEN before ELSE mutated
cache_after_save(before, mutated, raised) == mutated

\* the end of a mutating operation: the cached dict is now m2, then _save()
Persist(op, i, m2) ==
    \E out \in SaveOutcomes :
        LET cl == call[i]
            c3 == [some |-> TRUE, map |-> m2]
            raises == c3.some /\ HSetRaises(c3.map)
            sent == c3.some /\ ~raises
            wrote == sent /\ out # "lost"
            err == IF raises THEN "DataError"
                   ELSE IF sent /\ propagates(out = "ok") THEN "StoreError"
                   ELSE "none"
            fault == IF out # "ok" THEN "save" ELSE cl.fault
        IN  /\ out = "ok" \/ (sent /\ faults > 0)
            /\ cached_value' = [cached_value EXCEPT
                    ![i] = cache_after_save(cached_value[i], c3, err # "none")]
            /\ remote' = IF wrote THEN save(c3, remote) ELSE remote
            /\ Finish(op, i, cl.key, cl.value, None, err, fault, cl.loads,
                      IF sent THEN 1 ELSE 0, cl.snap, cached_value[i].map, remote)
            /\ prevWrite' = IF ~wrote THEN prevWrite
                            ELSE IF op = "set" /\ err = "none"
                            THEN [inst |-> i, key |-> cl.key, arg |-> cl.value]
                            ELSE NoWrite
            /\ stale' = Stale(i, FALSE, wrote)
            /\ call' = OthersCall(i, IdleCall,
                                  IF op = "set" /\ err = "none" THEN {cl.key} ELSE {})
            /\ faults' = IF out = "ok" THEN faults ELSE faults - 1
            /\ UNCHANGED <<everSet, actors, view, nops, client_vars>>

\* set_secure_value from self._secret_value[key] = value on
set_secure_value_save(i) ==
    /\ call[i].pc = "set_save"
    /\ Persist("set", i,
               DictSet(secret_value(cached_value[i], remote, TRUE).map,
                       call[i].key, call[i].value))

\* clear_value up to the test of line 72
clear_value_check(i, k) ==
    /\ CanStart(i)
    /\ \E ok \in BOOLEAN :
        LET c == cached_value[i]
            needs == needs_load(c)
            c2 == secret_value(c, remote, ok)
            failed == needs /\ propagates(ok)
            loads == IF needs THEN 1 ELSE 0
            fault == IF ok THEN "none" ELSE "load"
        IN  /\ ok \/ (needs /\ faults > 0)
            /\ cached_value' = [cached_value EXCEPT ![i] = c2]
            /\ IF failed
               THEN /\ call' = OthersCall(i, IdleCall, {})
                    /\ Finish("clear", i, k, None, None, "StoreError", fault, loads, 0,
                              SnapOf("clear", i), c2.map, remote)
               ELSE IF key_missing(c2.map, k)
               THEN /\ call' = OthersCall(i, IdleCall, {})
                    /\ Finish("clear", i, k, None, None, "none", fault, loads, 0,
                              SnapOf("clear", i), c2.map, remote)
               ELSE /\ call' = OthersCall(i, [pc |-> "clear_save", key |-> k,
                                              value |-> None, loads |-> loads,
                                              fault |-> fault,
                                              snap |-> SnapOf("clear", i)], {})
                    /\ Unfinished
            /\ stale' = Stale(i, needs /\ ok, FALSE)
            /\ view' = ViewAfter(i, needs /\ ok, FALSE)
            /\ faults' = IF ok THEN faults ELSE faults - 1
    /\ Started(i)
    /\ UNCHANGED <<remote, prevWrite, everSet>>

\* clear_value from self._secret_value.pop(key) on; pop of a missing key
\* raises KeyError before anything is saved
clear_value_save(i) ==
    /\ call[i].pc = "clear_save"
    /\ LET m == secret_value(cached_value[i], remote, TRUE).map
       IN  IF call[i].key \in DOMAIN m
           THEN Persist("clear", i, DictPop(m, call[i].key))
           ELSE /\ Finish("clear", i, call[i].key, None, None, "KeyError",
                          call[i].fault, call[i].loads, 0, call[i].snap, m, remote)
                /\ call' = OthersCall(i, IdleCall, {})
                /\ UNCHANGED <<remote, cached_value, stale, prevWrite, everSet,
                               actors, view, faults, nops, client_vars>>

\* clear_all_values called through an instance (one argument, the instance)
\* or through the class (no argument)
ClearAll(who, nargs) ==
    /\ last' = [NoLast EXCEPT !.op = "clear_all", !.inst = who,
                              !.err = clear_all_raises(nargs),
                              !.map1 = IF who \in Inst THEN cached_value[who].map
                                       ELSE EmptyMap,
                              !.remote1 = remote,
                              !.snap = IF who \in Inst THEN SnapOf("clear_all", who)
                                       ELSE [NoSnap EXCEPT !.remote0 = remote]]
    /\ nops' = nops - 1
    /\ call' = OthersCall(who, IF who \in Inst THEN call[who] ELSE IdleCall, {})
    /\ hist' = [j \in Inst |-> IF j = who THEN NoHist ELSE hist[j]]
    /\ UNCHANGED <<remote, cached_value, stale, prevWrite, everSet, actors, view,
                   faults, client_vars>>

clear_all_values(i) == CanStart(i) /\ ClearAll(i, 1)

clear_all_values_on_class == nops > 0 /\ ClearAll("class", 0)

Next ==
    \/ \E i \in Inst, k \in Keys, d \in Defaults : get_secure_value(i, k, d)
    \/ \E i \in Inst, k \in Keys, v \in Vals : set_secure_value_load(i, k, v)
    \/ \E i \in Inst : set_secure_value_save(i)
    \/ \E i \in Inst, k \in Keys : clear_value_check(i, k)
    \/ \E i \in Inst : clear_value_save(i)
    \/ \E i \in Inst : keys(i)
    \/ \E i \in Inst : items(i)
    \/ \E i \in Inst : clear_all_values(i)
    \/ clear_all_values_on_class

\* one turn of the loop of list_patients
list_patients_key ==
    /\ lp \in DOMAIN patient_keys
    /\ LET key == patient_keys[lp]
       IN  patient_list' = IF StartsWith(key, Prefix)
                           THEN Append(patient_list, Partition(key, Slash)[3])
                           ELSE patient_list
    /\ lp' = lp + 1
    /\ UNCHANGED <<patient_keys, delegate_vars>>

\* the loop is over: return patient_list
list_patients_return ==
    /\ lp = Len(patient_keys) + 1
    /\ lp' = 0
    /\ UNCHANGED <<patient_keys, patient_list, delegate_vars>>

ListNext == list_patients_key \/ list_patients_return

Spec == Init /\ [][Next]_vars

ListSpec == ListInit /\ [][ListNext]_vars

FaultSpec == FaultInit /\ [][Next]_vars

\* ------------------------------------------------------------- properties
\* the instance of the operation that has just ended, and its cached dict
Me == last.inst
MyMap == cached_value[Me].map
Ended(op) == last.op = op /\ last.inst \in Inst
Returned(op) == Ended(op) /\ last.err = "none"

\* C1: a get(k) issued by an instance right after its own set(k, v) has
\* completed returns v, whatever other instances wrote to the record between
\* the two calls.
C1_RoundTrip ==
    (Ended("get") /\ last.snap.prev.op = "set" /\ last.snap.prev.key = last.key)
        => (last.err = "none" /\ last.ret = last.snap.prev.arg)

\* the round trip happened while the record holds another value for the key
C1_Witness ==
    /\ Returned("get")
    /\ last.snap.prev.op = "set" /\ last.snap.prev.key = last.key
    /\ last.ret = last.snap.prev.arg
    /\ last.key \in DOMAIN remote /\ remote[last.key] # last.ret

\* A's set(ka, va) ran from a cache that A loaded before B's set(kb, vb),
\* B's set being the last write before A's, with no step of another instance
\* between A's reload and A's persist
StaleSet ==
    /\ Returned("set")
    /\ ~last.snap.stepped
    /\ last.snap.some0 /\ last.snap.stale0
    /\ last.snap.pw0.inst \in Inst \ {Me}
    /\ last.snap.pw0.key # last.key

\* C2: after such a set the record holds kb -> vb and ka -> va and every field
\* it held when A's set began, with its value (ka's aside).
C2_AntiStale ==
    StaleSet =>
        /\ last.snap.pw0.key \in DOMAIN remote
        /\ remote[last.snap.pw0.key] = last.snap.pw0.arg
        /\ last.key \in DOMAIN remote /\ remote[last.key] = last.arg
        /\ \A f \in DOMAIN last.snap.remote0 :
              f \in DOMAIN remote /\ (f # last.key => remote[f] = last.snap.remote0[f])

\* the scenario of the specification: A cached a record without kb (or with
\* another value for it), and the record ends with three fields
C2_Witness ==
    /\ StaleSet
    /\ last.snap.map0 # EmptyMap
    /\ \/ last.snap.pw0.key \notin DOMAIN last.snap.map0
       \/ last.snap.map0[last.snap.pw0.key] # last.snap.pw0.arg
    /\ remote[last.snap.pw0.key] = last.snap.pw0.arg
    /\ Cardinality(DOMAIN remote) = 3

\* clear_value(k) found k in the instance's dict
ClearedPresent == Ended("clear") /\ last.key \in DOMAIN last.map1

\* C3: clear_value(k) on a key of the instance's dict leaves the instance with
\* the dict it had, less k: every other key keeps its value.
C3_ClearExact ==
    ClearedPresent =>
        /\ cached_value[Me].some
        /\ DOMAIN MyMap = (DOMAIN last.map1) \ {last.key}
        /\ \A x \in DOMAIN MyMap : MyMap[x] = last.map1[x]

C3_Witness ==
    /\ ClearedPresent /\ last.err = "none"
    /\ Cardinality(DOMAIN last.map1) >= 2
    /\ DOMAIN MyMap = (DOMAIN last.map1) \ {last.key}

\* C4: once clear_value(k) on a present key has completed, the record equals
\* the instance's dict and has no field k.
C4_ClearPersisted ==
    (ClearedPresent /\ last.err = "none")
        => (remote = MyMap /\ last.key \notin DOMAIN remote)

\* C5: clear_all_values() called on an instance fails with the "not allowed"
\* error (NotImplementedError) and changes neither the record nor the cache.
C5_ClearAllNotAllowed ==
    Ended("clear_all") =>
        /\ last.err = "NotImplementedError"
        /\ remote = last.snap.remote0
        /\ cached_value[Me] = [some |-> last.snap.some0, map |-> last.snap.map0]

\* C6: every operation that writes to the store has loaded the record first,
\* after it started and before its persist.
C6_ReloadBeforeWrite ==
    ((Ended("set") \/ Ended("clear")) /\ last.saves = 1) => last.loads = 1

\* C7: in a run of a single instance, the cache equals the record after every
\* completed get, set, delete, keys and items.
C7_CacheIsRemote ==
    (/\ actors = {Me}
     /\ last.op \in {"get", "set", "clear", "keys", "items"}
     /\ last.err = "none")
        => (cached_value[Me].some /\ MyMap = remote)

\* A's set completed, and another instance completed a set between A's reload
\* and A's persist
RacedSet == Returned("set") /\ last.snap.between # {}

MissingGet ==
    /\ Ended("get") /\ last.err # "StoreError"
    /\ last.key \notin DOMAIN remote
    /\ last.key \notin everSet

\* C9: such a get returns d and raises nothing, with the cache absent or
\* present when it is called.
C9_MissingDefault == MissingGet => (last.err = "none" /\ last.ret = last.arg)

\* the default is not None and the answer came from a cache that was there
C9_Witness ==
    /\ MissingGet
    /\ last.arg # None /\ last.ret = last.arg
    /\ last.loads = 0

\* items() of the instance had it been called instead of the operation
ItemsBefore == IF last.snap.some0 THEN last.snap.map0 ELSE last.snap.remote0

\* clear_value(k) ended, k not being in the instance's dict
ClearedAbsent ==
    /\ Ended("clear") /\ last.err # "StoreError"
    /\ last.key \notin DOMAIN ItemsBefore

\* C10: clear_value(k) on a key absent from the instance's dict raises
\* nothing, leaves items() as it was, issues no persist and leaves the record.
C10_ClearAbsentNoop ==
    ClearedAbsent =>
        /\ last.err = "none"
        /\ last.saves = 0
        /\ cached_value[Me].some /\ MyMap = ItemsBefore
        /\ remote = last.snap.remote0

\* the key is absent from a dict that is not empty, with the record holding
\* the key (the instance's dict and the record differ)
C10_Witness ==
    /\ ClearedAbsent /\ last.err = "none"
    /\ ItemsBefore # EmptyMap
    /\ last.key \in DOMAIN remote

\* a store call of the operation that has just ended failed
Faulted == last.inst \in Inst /\ last.fault # "none"

\* the record r after the store has set the fields of m in it
Merged(r, m) ==
    [k \in (DOMAIN r) \cup (DOMAIN m) |-> IF k \in DOMAIN m THEN m[k] ELSE r[k]]

\* C11: when a store call of get, set, delete, keys or items fails, the
\* operation ends with the store's error and calls the store no more: a
\* failed load is the operation's only call, a failed persist its last one,
\* and the record is as the store left it (untouched, or with the fields of
\* the failed write when the store had applied it).
C11_FailurePropagates ==
    Faulted =>
        /\ last.err = "StoreError"
        /\ last.fault = "load" =>
              (last.loads = 1 /\ last.saves = 0 /\ remote = last.remote1)
        /\ last.fault = "save" =>
              /\ last.saves = 1
              /\ remote = last.remote1 \/ remote = Merged(last.remote1, MyMap)

\* the persist of a clear_value failed and the record is untouched
C11_Witness ==
    /\ Ended("clear") /\ last.fault = "save" /\ last.err = "StoreError"
    /\ remote = last.remote1
    /\ last.key \notin DOMAIN MyMap

\* one of the five operations of the adapter has just ended
Ops == {"get", "set", "clear", "keys", "items"}
Reads == {"get", "keys", "items"}
EndedOp == last.inst \in Inst /\ last.op \in Ops

\* C12 as stated: every call of get, set, delete, keys and items accesses the
\* store at least once.
C12_AlwaysRoundTrip == EndedOp => last.loads + last.saves >= 1

\* C12 as amended: set always accesses the store (its reload); get, keys and
\* items access it exactly when the instance has no cache, and delete loads
\* exactly then and persists only a key it found, so with a cache present a
\* get, keys, items or a delete of an absent key is answered from the cache.
C12_RoundTripUnlessCached ==
    EndedOp =>
        /\ last.op = "set" => last.loads = 1
        /\ last.op \in Reads =>
              /\ last.saves = 0
              /\ last.loads = 1 <=> ~last.snap.some0
        /\ last.op = "clear" =>
              /\ last.loads = 1 <=> ~last.snap.some0
              /\ last.saves = 1 => last.key \in DOMAIN last.map1

\* a get answered from the cache alone, the record holding another value
C12_Witness ==
    /\ Returned("get")
    /\ last.snap.some0 /\ last.loads + last.saves = 0
    /\ last.key \in DOMAIN MyMap /\ last.ret = MyMap[last.key]
    /\ last.key \in DOMAIN remote /\ remote[last.key] # last.ret

\* the instance of the operation that has just ended holds a view from an
\* earlier keys() or items()
HasView == last.inst \in Inst /\ view[Me].have

\* C13 as stated: a view from keys() or items(), enumerated after a later
\* set(k, v) or delete(k) of the instance, shows k -> v after the set and k
\* missing after the delete.
C13_LiveViews ==
    HasView =>
        /\ Returned("set") =>
              (last.key \in ViewKeys(Me) /\ ViewItems(Me)[last.key] = last.arg)
        /\ (ClearedPresent /\ last.err = "none") => last.key \notin ViewKeys(Me)

\* C13 as amended: the view shows the dict object it was taken from.
\* delete(k) pops k from that object, so a view that was live shows the dict
\* less k; set(k, v) loads a new dict first, so the view that was live before
\* the set still shows the dict as it was before the set and follows the
\* cache no more.
C13_ViewsFollowDict ==
    HasView =>
        /\ (ClearedPresent /\ view[Me].live) =>
              /\ ViewKeys(Me) = (DOMAIN last.map1) \ {last.key}
              /\ \A x \in ViewKeys(Me) : ViewItems(Me)[x] = last.map1[x]
        /\ (Ended("set") /\ last.fault # "load") =>
              /\ ~view[Me].live
              /\ last.snap.vlive0 => ViewItems(Me) = last.snap.map0

\* a set has added a key to the cache that the earlier view does not show
C13_Witness ==
    /\ HasView /\ Returned("set") /\ last.snap.vlive0
    /\ last.key \in DOMAIN MyMap
    /\ last.key \notin ViewKeys(Me)

\* ------------------------------------------------------------------- C14
\* list_patients has returned
Listed == lp = 0
\* the positions in the stored keys of the keys made of the prefix and a name
Prefixed ==
    {j \in DOMAIN patient_keys : \E n \in NamePool : patient_keys[j] = Prefix \o n}
NameAt(j) == CHOOSE n \in NamePool : patient_keys[j] = Prefix \o n

\* C14: list_patients returns, for every stored key made of
\* "patient_id_mapping/" and a name, that name, also when the name contains
\* "/", in the order of the keys; the other keys add nothing to the result.
C14_PrefixStripped ==
    Listed =>
        /\ Len(patient_list) = Cardinality(Prefixed)
        /\ \A j \in Prefixed :
              patient_list[Cardinality({i \in Prefixed : i <= j})] = NameAt(j)

\* a name with a "/" is returned whole, and a key without the prefix is left out
C14_Witness ==
    /\ Listed
    /\ Len(patient_keys) = 2
    /\ patient_list = << <<"a", "/", "b">> >>

\* ------------------------------------------------------------------- C15
\* the step ends a get, keys or items of instance i
ReadEnds(i) == last'.op \in Reads /\ last'.inst = i

\* what a step that ends a read of instance i does: no write, a load exactly
\* when the cache of i was absent, a present cache left as it was, an absent
\* one either loaded from the record or, the load failing, still absent
ReadFrame(i) ==
    /\ remote' = remote
    /\ last'.saves = 0
    /\ last'.loads = (IF cached_value[i].some THEN 0 ELSE 1)
    /\ cached_value[i].some => cached_value'[i] = cached_value[i]
    /\ ~cached_value[i].some =>
          \/ cached_value'[i] = [some |-> TRUE, map |-> remote]
          \/ last'.err = "StoreError" /\ cached_value'[i] = cached_value[i]
    /\ \A j \in Inst \ {i} : cached_value'[j] = cached_value[j]

\* C15: the cache of every instance is absent at construction, and a get,
\* keys or items never writes to the remote record, loads it only when the
\* cache of its instance is absent and leaves a present cache unchanged.
C15_ReadsOnlyLoad ==
    /\ \A i \in Inst : ~cached_value[i].some
    /\ [][\A i \in Inst : ReadEnds(i) => ReadFrame(i)]_vars

\* a read has answered from a present cache that differs from the record,
\* without loading
C15_Witness ==
    /\ EndedOp /\ last.op \in Reads
    /\ last.snap.some0 /\ last.loads = 0
    /\ MyMap # remote
    /\ cached_value[Me] = [some |-> TRUE, map |-> last.snap.map0]

\* ------------------------------------------------------------------- C16
\* a set has returned, and no other instance took a step between its reload
\* and its persist
AloneSet == Returned("set") /\ ~last.snap.stepped

\* C16: after a set(k, v) with no step of another instance between its
\* reload and its persist, the remote record is the record as it was at the
\* reload with k mapped to v, every other field as it was, and the cache of
\* the instance is that same map.
C16_SetOnlyItsKey ==
    AloneSet =>
        /\ DOMAIN remote = (DOMAIN last.snap.remote0) \cup {last.key}
        /\ remote[last.key] = last.arg
        /\ \A f \in (DOMAIN last.snap.remote0) \ {last.key} :
              remote[f] = last.snap.remote0[f]
        /\ cached_value[Me] = [some |-> TRUE, map |-> remote]

\* the set ran on a cache that differed from the record, which held a field
\* other than the key
C16_Witness ==
    /\ AloneSet
    /\ last.snap.some0 /\ last.snap.map0 # last.snap.remote0
    /\ (DOMAIN last.snap.remote0) \ {last.key} # {}

PersistFailed(op) == Ended(op) /\ last.fault = "save"
LoadFailed(op) == Ended(op) /\ last.fault = "load"
\* a get(k) has ended whose instance ran, just before, an operation on k of
\* the kind prevop
GetAfter(prevop) ==
    /\ Ended("get")
    /\ last.snap.prev.op = prevop
    /\ last.snap.prev.key = last.key

\* C18: a failed persist is not rolled back in the cache. After the persist
\* of set(k, v) failed the cache holds k -> v, after the persist of delete(k)
\* failed it holds no k, and a get(k) that follows on that instance answers
\* from the cache (v, or the default) without a load; a set or delete whose
\* load failed leaves the cache as it was before the operation.
C18_NoLocalRollback ==
    /\ PersistFailed("set") =>
          /\ last.err = "StoreError"
          /\ cached_value[Me].some
          /\ last.key \in DOMAIN MyMap /\ MyMap[last.key] = last.arg
    /\ PersistFailed("clear") =>
          /\ last.err = "StoreError"
          /\ cached_value[Me].some
          /\ last.key \notin DOMAIN MyMap
    /\ GetAfter("set_unsaved") =>
          (last.err = "none" /\ last.loads = 0 /\ last.ret = last.snap.prev.arg)
    /\ GetAfter("clear_unsaved") =>
          (last.err = "none" /\ last.loads = 0 /\ last.ret = last.arg)
    /\ (LoadFailed("set") \/ LoadFailed("clear")) =>
          cached_value[Me] = [some |-> last.snap.some0, map |-> last.snap.map0]

\* a get answers with the value of a set whose persist failed, and the
\* record does not hold that value
C18_Witness ==
    /\ GetAfter("set_unsaved")
    /\ last.ret = last.snap.prev.arg
    /\ last.key \notin DOMAIN remote

====
